---- MODULE Spec2Model ----
(***************************************************************************)
(* Model of the transition functions and loops of 4dvar_seir.ipynb.       *)
(*                                                                         *)
(* Numbers: the notebook computes in numpy float64.  A number is modelled  *)
(* as an exact fraction in lowest terms, so every arithmetic result is the *)
(* real-number result (no rounding).  The three non-finite float values    *)
(* nan, inf and -inf are kept, because the code can produce them.          *)
(*                                                                         *)
(* Arrays: a numpy array of shape (n, m) is a sequence of n rows, each a   *)
(* sequence of m numbers; a state vector of shape (k, 1) has k rows of     *)
(* one number.                                                             *)
(***************************************************************************)
EXTENDS Integers, Sequences, FiniteSets, TLC

VARIABLES
    pc,            \* where the running cell or function stands
    fn,            \* the transition function in use
    state,         \* the state vector being advanced
    ret,           \* what the last call of the transition function left
    states,        \* the rows recorded by the sample epidemic
    observations,  \* the list prepare_obs builds
    i,             \* the loop index
    size,          \* the number of observations asked for
    truth,         \* the state the observations are generated from
    yobs,          \* the observations prepare_obs returned
    xb,            \* the background estimate given to assimilate
    error_vector,  \* the diagonal of the background covariance
    cand,          \* the candidate of the minimization
    iter,          \* the iterations of the minimization so far
    result,        \* what assimilate left
    parameter_combinations,  \* the rows generate_outputs_seir is given
    step,          \* the step of the simulation of one row
    max_infected,  \* the largest I seen in the simulation of one row
    output_final,  \* the final D of each row done
    output_max     \* the largest I of each row done

vars == <<pc, fn, state, ret, states, observations, i, size, truth, yobs, xb,
          error_vector, cand, iter, result, parameter_combinations, step,
          max_infected, output_final, output_max>>

\* the variables of the data assimilation, which the other cells leave alone
da_vars == <<truth, yobs, xb, error_vector, cand, iter, result>>

\* the variables of the sensitivity analysis, which the other cells leave alone
sa_vars == <<parameter_combinations, step, max_infected, output_final, output_max>>

(***************************************************************************)
(* Natural numbers of any size: the digits in base Base, the least         *)
(* significant first, without a leading zero digit; <<>> is 0.             *)
(***************************************************************************)
Base == 100 * 100

IAbs(n) == IF n < 0 THEN -n ELSE n

Sgn(n) == IF n < 0 THEN -1 ELSE IF n > 0 THEN 1 ELSE 0

RECURSIVE GCD(_, _)
GCD(a, b) == IF b = 0 THEN a ELSE GCD(b, a % b)

RECURSIVE NFromInt(_)
NFromInt(n) == IF n = 0 THEN <<>> ELSE <<n % Base>> \o NFromInt(n \div Base)

\* numbers below Base^2 are computed with machine integers
Small(a) == Len(a) <= 2

NToInt(a) == IF a = <<>> THEN 0 ELSE IF Len(a) = 1 THEN a[1] ELSE a[1] + Base * a[2]

RECURSIVE NNorm(_)
NNorm(a) ==
    IF a = <<>> THEN a
    ELSE IF a[Len(a)] = 0 THEN NNorm(SubSeq(a, 1, Len(a) - 1)) ELSE a

Low(a) == IF a = <<>> THEN 0 ELSE a[1]

Rest(a) == IF a = <<>> THEN a ELSE Tail(a)

RECURSIVE NAddC(_, _, _)
NAddC(a, b, c) ==
    IF a = <<>> /\ b = <<>> THEN NFromInt(c)
    ELSE LET x == Low(a) + Low(b) + c
         IN  <<x % Base>> \o NAddC(Rest(a), Rest(b), x \div Base)

NAdd(a, b) ==
    IF Small(a) /\ Small(b) THEN NFromInt(NToInt(a) + NToInt(b)) ELSE NAddC(a, b, 0)

RECURSIVE NSubB(_, _, _)
NSubB(a, b, c) ==
    IF a = <<>> THEN <<>>
    ELSE LET x == a[1] - Low(b) - c
         IN  IF x < 0 THEN <<x + Base>> \o NSubB(Tail(a), Rest(b), 1)
             ELSE <<x>> \o NSubB(Tail(a), Rest(b), 0)

\* a - b, for a >= b
NSub(a, b) ==
    IF Small(a) /\ Small(b) THEN NFromInt(NToInt(a) - NToInt(b)) ELSE NNorm(NSubB(a, b, 0))

RECURSIVE NCmpAt(_, _, _)
NCmpAt(a, b, k) ==
    IF k = 0 THEN 0
    ELSE IF a[k] < b[k] THEN -1
    ELSE IF a[k] > b[k] THEN 1
    ELSE NCmpAt(a, b, k - 1)

\* -1, 0 or 1 as a is less than, equal to or greater than b
NCmp(a, b) ==
    IF Len(a) < Len(b) THEN -1
    ELSE IF Len(a) > Len(b) THEN 1
    ELSE NCmpAt(a, b, Len(a))

RECURSIVE NMulC(_, _, _)
NMulC(a, k, c) ==
    IF a = <<>> THEN NFromInt(c)
    ELSE LET x == a[1] * k + c
         IN  <<x % Base>> \o NMulC(Tail(a), k, x \div Base)

\* a * k for one digit k
NMulDigit(a, k) == IF k = 0 THEN <<>> ELSE NMulC(a, k, 0)

NShift(a) == IF a = <<>> THEN a ELSE <<0>> \o a

RECURSIVE NMul(_, _)
NMul(a, b) ==
    IF a = <<>> \/ b = <<>> THEN <<>>
    ELSE IF Len(a) = 1 /\ Len(b) = 1 THEN NFromInt(a[1] * b[1])
    ELSE NAdd(NMulDigit(a, b[1]), NShift(NMul(a, Tail(b))))

RECURSIVE QDigit(_, _, _, _)
\* the largest digit q in lo..hi with b * q <= r
QDigit(r, b, lo, hi) ==
    IF lo = hi THEN lo
    ELSE LET mid == (lo + hi + 1) \div 2
         IN  IF NCmp(NMulDigit(b, mid), r) <= 0 THEN QDigit(r, b, mid, hi)
             ELSE QDigit(r, b, lo, mid - 1)

\* the two leading digits of a as one number, for Len(a) >= 2
Lead(a) == a[Len(a)] * Base + a[Len(a) - 1]

Min(m, n) == IF m < n THEN m ELSE n

\* the leading digits of b that stand against the two leading digits of r
Against(r, b) == IF Len(r) = Len(b) THEN Lead(b) ELSE b[Len(b)]

\* the digit r \div b for b <= r < b * Base: the leading digits of r and b
\* bound it from both sides, and the search is over what is left
QuotientDigit(r, b) ==
    IF Small(r) /\ Small(b) THEN NToInt(r) \div NToInt(b)
    ELSE QDigit(r, b, Lead(r) \div (Against(r, b) + 1),
                Min(Base - 1, (Lead(r) + 1) \div Against(r, b)))

RECURSIVE NDivAt(_, _, _, _, _)
\* long division, from digit k of a downwards: the digit qd of the quotient
\* is put before q and taken out of the running remainder r1
NDivDigit(a, b, k, q, r1, qd) ==
    NDivAt(a, b, k - 1, NNorm(<<qd>> \o q), NSub(r1, NMulDigit(b, qd)))

NDivRemainder(a, b, k, q, r1) ==
    NDivDigit(a, b, k, q, r1, IF NCmp(r1, b) < 0 THEN 0 ELSE QuotientDigit(r1, b))

NDivAt(a, b, k, q, r) ==
    IF k = 0 THEN <<q, r>> ELSE NDivRemainder(a, b, k, q, NNorm(<<a[k]>> \o r))

\* <<quotient, remainder>> of a by b, b # 0
NDivMod(a, b) ==
    IF Small(a) /\ Small(b)
    THEN <<NFromInt(NToInt(a) \div NToInt(b)), NFromInt(NToInt(a) % NToInt(b))>>
    ELSE NDivAt(a, b, Len(a), <<>>, <<>>)

RECURSIVE NGcd(_, _)
NGcd(a, b) ==
    IF b = <<>> THEN a
    ELSE IF Small(a) /\ Small(b) THEN NFromInt(GCD(NToInt(a), NToInt(b)))
    ELSE NGcd(b, NDivMod(a, b)[2])

(***************************************************************************)
(* float arithmetic, without rounding: a number is <<s, n, d>>, the        *)
(* fraction s * n / d in lowest terms with the sign s in {-1, 0, 1}.       *)
(* d = <<>> marks the non-finite values: s = 0 is nan, s = 1 is inf and    *)
(* s = -1 is -inf.                                                         *)
(***************************************************************************)
Zero == <<0, <<>>, <<1>>>>

NaN == <<0, <<>>, <<>>>>

\* s * n / dn with the common divisor g of n and dn taken out
Lowest(s, n, dn, g) ==
    IF g = <<1>> THEN <<s, n, dn>>
    ELSE <<s>> \o [k \in 1..2 |-> NDivMod(<<n, dn>>[k], g)[1]]

\* the number s * n / dn in lowest terms, dn # 0
Frac(s, n, dn) == IF n = <<>> THEN Zero ELSE Lowest(s, n, dn, NGcd(n, dn))

\* the literal n / dn of two machine integers, dn > 0
Q(n, dn) == Frac(Sgn(n), NFromInt(IAbs(n)), NFromInt(dn))

IsFinite(a) == a[3] # <<>>

IsNaN(a) == a = NaN

\* sa * x / dn + sb * y / dn for signs sa, sb that are not 0
RSameDenominator(sa, x, sb, y, dn) ==
    Frac(IF sa = sb \/ NCmp(x, y) >= 0 THEN sa ELSE sb,
         IF sa = sb THEN NAdd(x, y)
         ELSE IF NCmp(x, y) >= 0 THEN NSub(x, y) ELSE NSub(y, x),
         dn)

\* a + b
RAdd(a, b) ==
    IF IsFinite(a) /\ IsFinite(b)
    THEN IF a[1] = 0 THEN b
         ELSE IF b[1] = 0 THEN a
         ELSE RSameDenominator(a[1], NMul(a[2], b[3]), b[1], NMul(b[2], a[3]),
                               NMul(a[3], b[3]))
    ELSE IF ~IsFinite(a) /\ ~IsFinite(b)
    THEN (IF a[1] = b[1] THEN a ELSE NaN)
    ELSE IF IsFinite(a) THEN b ELSE a

\* -a
RNeg(a) == <<-a[1], a[2], a[3]>>

\* a - b
RSub(a, b) == RAdd(a, RNeg(b))

\* a * b
RMul(a, b) ==
    IF IsFinite(a) /\ IsFinite(b)
    THEN Frac(a[1] * b[1], NMul(a[2], b[2]), NMul(a[3], b[3]))
    ELSE <<a[1] * b[1], <<>>, <<>>>>

\* a / b for numpy scalars: 0/0 is nan and x/0 is +-inf, with a warning only
RDiv(a, b) ==
    IF IsFinite(a) /\ IsFinite(b)
    THEN (IF b[1] = 0 THEN <<a[1], <<>>, <<>>>>
          ELSE Frac(a[1] * b[1], NMul(a[2], b[3]), NMul(a[3], b[2])))
    ELSE IF IsFinite(b) THEN <<a[1] * (IF b[1] < 0 THEN -1 ELSE 1), <<>>, <<>>>>
    ELSE IF IsFinite(a) /\ ~IsNaN(b) THEN Zero
    ELSE NaN

\* a < b; every comparison with nan is false
RLt(a, b) ==
    IF IsNaN(a) \/ IsNaN(b) THEN FALSE
    ELSE IF IsFinite(a) /\ IsFinite(b)
    THEN IF a[1] # b[1] THEN a[1] < b[1]
         ELSE IF a[1] = 0 THEN FALSE
         ELSE a[1] * NCmp(NMul(a[2], b[3]), NMul(b[2], a[3])) < 0
    ELSE IF ~IsFinite(a) /\ ~IsFinite(b) THEN a[1] < b[1]
    ELSE IF IsFinite(a) THEN b[1] > 0 ELSE a[1] < 0

\* a <= b
RLe(a, b) == RLt(a, b) \/ (a = b /\ ~IsNaN(a))

\* abs(a)
RAbs(a) == <<IAbs(a[1]), a[2], a[3]>>

(***************************************************************************)
(* numpy arrays                                                            *)
(***************************************************************************)
RECURSIVE ravel(_)
\* np.ravel: the elements of the array in row-major order
ravel(a) == IF a = <<>> THEN <<>> ELSE Head(a) \o ravel(Tail(a))

\* np.array(list).reshape(-1, 1): a column with one row per element
column(list) == [k \in 1..Len(list) |-> <<list[k]>>]

\* what a call leaves behind: a returned value or a raised exception
Return(v) == [err |-> "none", val |-> v]

Raise(e) == [err |-> e, val |-> <<>>]

(***************************************************************************)
(* SEIR: seir_step                                                         *)
(***************************************************************************)
\* max(x, 0): Python's max returns its first argument unless 0 > x
max0(x) == IF RLt(x, Zero) THEN Zero ELSE x

\* N = S_old + E_old + I_old + R_old
seir_N(S_old, E_old, I_old, R_old) == RAdd(RAdd(RAdd(S_old, E_old), I_old), R_old)

\* S_old * beta * I_old / N, evaluated left to right
seir_infected(S_old, beta, I_old, N) == RDiv(RMul(RMul(S_old, beta), I_old), N)

\* the slip of leaving the rate out: every infectious individual dies
seir_D_without_rate(D_old, alfa, I_old) == RAdd(D_old, I_old)

\* the slip D = alfa * I
seir_D_not_cumulative(D_old, alfa, I_old) == RMul(alfa, I_old)

\* D = D_old + alfa * I_old
seir_D(D_old, alfa, I_old) == RAdd(D_old, RMul(alfa, I_old))

\* the slip of leaving I out of the new infections
seir_S_without_I(S_old, beta, I_old, N) == RSub(S_old, RDiv(RMul(S_old, beta), N))

\* S = S_old - S_old * beta * I_old / N
seir_S(S_old, beta, I_old, N) == RSub(S_old, seir_infected(S_old, beta, I_old, N))

\* E = E_old + S_old * beta * I_old / N - eps * E_old
seir_E(S_old, E_old, I_old, beta, eps, N) ==
    RSub(RAdd(E_old, seir_infected(S_old, beta, I_old, N)), RMul(eps, E_old))

\* I = I_old + eps * E_old - (alfa + gamma) * I_old
seir_I(E_old, I_old, alfa, eps, gamma) ==
    RSub(RAdd(I_old, RMul(eps, E_old)), RMul(RAdd(alfa, gamma), I_old))

\* R = R_old + gamma * I_old
seir_R(I_old, R_old, gamma) == RAdd(R_old, RMul(gamma, I_old))

\* The elements of a raveled array are numpy scalars, whose division by zero
\* gives nan or inf.  A negative element is replaced by the Python int 0 of
\* max(x, 0), and 0 / 0 on Python ints raises ZeroDivisionError: that happens
\* when S_old, beta, I_old (the numerator) and S_old, E_old, I_old, R_old (N)
\* all are that literal.
seir_int_division(flat) == \A k \in {1, 2, 3, 4, 7} : RLt(flat[k], Zero)

\* the new state from the unpacked old one and N
seir_update(S_old, E_old, I_old, R_old, D_old, alfa, beta, eps, gamma, N) ==
    column(<<seir_S(S_old, beta, I_old, N),
             seir_E(S_old, E_old, I_old, beta, eps, N),
             seir_I(E_old, I_old, alfa, eps, gamma),
             seir_R(I_old, R_old, gamma),
             seir_D(D_old, alfa, I_old),
             alfa, beta, eps, gamma>>)

\* S_old, E_old, I_old, R_old, D_old, alfa, beta, eps, gamma = state
seir_unpack(cl) ==
    seir_update(cl[1], cl[2], cl[3], cl[4], cl[5], cl[6], cl[7], cl[8], cl[9],
                seir_N(cl[1], cl[2], cl[3], cl[4]))

\* state = [max(x, 0) for x in state], then the unpacking and the update
seir_clamp(flat) ==
    IF Len(flat) # 9 THEN Raise("ValueError")
    ELSE IF seir_int_division(flat) THEN Raise("ZeroDivisionError")
    ELSE Return(seir_unpack([k \in 1..9 |-> max0(flat[k])]))

seir_step(st) == seir_clamp(ravel(st))

(***************************************************************************)
(* Lorenz: lorenz_step and lorenz_evol_step                                *)
(***************************************************************************)
\* elementwise operations on the rows of an array
VAdd(u, v) == [k \in 1..Len(u) |-> RAdd(u[k], v[k])]

VSub(u, v) == [k \in 1..Len(u) |-> RSub(u[k], v[k])]

VMul(u, v) == [k \in 1..Len(u) |-> RMul(u[k], v[k])]

VScale(c, u) == [k \in 1..Len(u) |-> RMul(c, u[k])]

\* the slip of using the parameters as they come
VAbs_forgotten(u) == u

VAbs(u) == [k \in 1..Len(u) |-> RAbs(u[k])]

\* d = 0.01
d == Q(1, 100)

\* the derivatives (dx, dy, dz) of the state <<x, y, z>>
lorenz_step(st, t, rho, sigma, beta) ==
    <<VMul(sigma, VSub(st[2], st[1])),
      VSub(VMul(st[1], VSub(rho, st[3])), st[2]),
      VSub(VMul(st[1], st[2]), VMul(beta, st[3]))>>

\* The raveled list of the first statement is discarded, so the unpacking
\* iterates over the first axis of the array as it was passed.
\* [x + d * dx, y + d * dy, z + d * dz, rho, sigma, beta]
lorenz_euler(st, dd, rho, sigma, beta) ==
    [k \in 1..3 |-> VAdd(st[k], VScale(d, dd[k]))] \o <<rho, sigma, beta>>

\* rho, sigma, beta = abs(rho), abs(sigma), abs(beta), then the derivatives
lorenz_abs(st, rho, sigma, beta) ==
    lorenz_euler(st, lorenz_step(st, "", rho, sigma, beta), rho, sigma, beta)

lorenz_evol_step(st) ==
    IF Len(st) # 6 THEN Raise("ValueError")
    ELSE Return(column(ravel(lorenz_abs(SubSeq(st, 1, 3), VAbs(st[4]), VAbs(st[5]),
                                        VAbs(st[6])))))

(***************************************************************************)
(* Inputs                                                                  *)
(***************************************************************************)
\* the largest compartment count and Lorenz coordinate an input draws
MaxCount == 2

Counts == {Q(n, 1) : n \in -1..MaxCount}

\* the documented bounds of the SEIR rates
alfa_min == Q(1, 1000)

alfa_max == Q(1, 100)

beta_min == Zero

beta_max == Q(7, 1)

eps_min == Q(1, 20)

eps_max == Q(1, 2)

gamma_min == Q(1, 20)

gamma_max == Q(1, 2)

\* rates at both ends of and inside the documented bounds, and a negative
\* trial value such as the minimizer proposes
Alfas == {alfa_min, alfa_max, Q(-7, 1000)}

Betas == {beta_min, Q(2, 1), beta_max, Q(-2, 1)}

Epss == {eps_min, eps_max, Q(-1, 5)}

Gammas == {gamma_min, gamma_max, Q(-7, 50)}

SeirStates ==
    {column(<<S, E, I, R, D, a, b, e, g>>) :
        S \in Counts, E \in {Q(-1, 1), Zero, Q(1, 1)}, I \in Counts,
        R \in {Q(-1, 1), Zero, Q(1, 1)}, D \in {Q(-1, 1), Zero, Q(2, 1)},
        a \in Alfas, b \in Betas, e \in Epss, g \in Gammas}

Coords == {Q(n, 1) : n \in -1..MaxCount}

Rhos == {Q(28, 1), Q(-28, 1), Q(20, 1)}

Sigmas == {Q(10, 1), Q(-10, 1)}

LorenzBetas == {Q(8, 3), Q(-8, 3), Q(5, 1)}

LorenzStates ==
    {column(<<x, y, z, r, s, b>>) :
        x \in Coords, y \in Coords, z \in Coords,
        r \in Rhos, s \in Sigmas, b \in LorenzBetas}

\* an array of shape (n, m) filled with the numbers v, v + 1, ...
Filled(n, m, v) == [r \in 1..n |-> [c \in 1..m |-> Q(v + (r - 1) * m + c - 1, 1)]]

\* arrays of other shapes than the (9, 1) and (6, 1) of the state vectors
Shapes == {<<5, 1>>, <<6, 2>>, <<8, 1>>, <<10, 1>>, <<12, 1>>, <<3, 3>>, <<3, 2>>, <<2, 3>>}

OtherArrays == {Filled(sh[1], sh[2], v) : sh \in Shapes, v \in {-20, 1}}

\* what each transition function is called with
StepInputs(f) ==
    IF f = "seir_step" THEN SeirStates \cup LorenzStates \cup OtherArrays
    ELSE LorenzStates \cup OtherArrays \cup {Filled(9, 1, 1)}

(***************************************************************************)
(* One call of a transition function                                       *)
(***************************************************************************)
None == [err |-> "unset", val |-> <<>>]

\* no data assimilation has been started
NoAssimilation ==
    /\ truth = <<>>
    /\ yobs = <<>>
    /\ xb = <<>>
    /\ error_vector = <<>>
    /\ cand = <<>>
    /\ iter = 0
    /\ result = None

\* generate_outputs_seir has not been called
NoSensitivity ==
    /\ parameter_combinations = <<>>
    /\ step = 0
    /\ max_infected = <<>>
    /\ output_final = <<>>
    /\ output_max = <<>>

InitStep ==
    /\ fn \in {"seir_step", "lorenz_evol_step"}
    /\ state \in StepInputs(fn)
    /\ pc = "call"
    /\ ret = None
    /\ states = <<>>
    /\ observations = <<>>
    /\ i = 0
    /\ size = 0
    /\ NoAssimilation
    /\ NoSensitivity

CallSeirStep ==
    /\ pc = "call"
    /\ fn = "seir_step"
    /\ ret' = seir_step(state)
    /\ pc' = "done"
    /\ UNCHANGED <<fn, state, states, observations, i, size, da_vars, sa_vars>>

CallLorenzEvolStep ==
    /\ pc = "call"
    /\ fn = "lorenz_evol_step"
    /\ ret' = lorenz_evol_step(state)
    /\ pc' = "done"
    /\ UNCHANGED <<fn, state, states, observations, i, size, da_vars, sa_vars>>

NextStep == CallSeirStep \/ CallLorenzEvolStep

SpecStep == InitStep /\ [][NextStep]_vars

(***************************************************************************)
(* Properties of one call                                                  *)
(***************************************************************************)
\* the array is a state vector of n components, shape (n, 1)
IsVector(a, n) == Len(a) = n /\ \A k \in 1..n : Len(a[k]) = 1

\* component k (from 1) of a state vector
at(a, k) == a[k][1]

\* S + E + I + R of a SEIR state vector
Alive(a) == RAdd(RAdd(RAdd(at(a, 1), at(a, 2)), at(a, 3)), at(a, 4))

\* S, E, I, R, D >= 0 and S + E + I + R > 0
ValidSeir(a) ==
    /\ IsVector(a, 9)
    /\ \A k \in 1..5 : RLe(Zero, at(a, k))
    /\ RLt(Zero, Alive(a))

\* the four rates lie inside their documented bounds
RatesInBounds(a) ==
    /\ RLe(alfa_min, at(a, 6)) /\ RLe(at(a, 6), alfa_max)
    /\ RLe(beta_min, at(a, 7)) /\ RLe(at(a, 7), beta_max)
    /\ RLe(eps_min, at(a, 8)) /\ RLe(at(a, 8), eps_max)
    /\ RLe(gamma_min, at(a, 9)) /\ RLe(at(a, 9), gamma_max)

SeirCalled == pc = "done" /\ fn = "seir_step"

LorenzCalled == pc = "done" /\ fn = "lorenz_evol_step"

\* C1: from S, E, I, R, D >= 0, S+E+I+R > 0 and rates inside the documented
\* bounds, every compartment S, E, I, R, D returned by seir_step is >= 0.
C1_CompartmentsNonNegative ==
    (SeirCalled /\ ValidSeir(state) /\ RatesInBounds(state))
        => /\ ret.err = "none"
           /\ \A k \in 1..5 : RLe(Zero, at(ret.val, k))

\* C2, the step: from a valid state and rates inside the bounds, S+E+I+R of
\* the state seir_step returns is at most S+E+I+R of its input.
C2_StepAliveNotIncreased ==
    (SeirCalled /\ ValidSeir(state) /\ RatesInBounds(state))
        => /\ ret.err = "none"
           /\ RLe(Alive(ret.val), Alive(state))

C2_StepWitness ==
    /\ SeirCalled /\ ValidSeir(state) /\ RatesInBounds(state)
    /\ RLt(Zero, at(state, 3))
    /\ RLt(Alive(ret.val), Alive(state))

\* C3: the parameters rho, sigma, beta that lorenz_evol_step returns equal
\* those of its input, also when they are negative.
C3_LorenzParametersUnchanged ==
    (LorenzCalled /\ IsVector(state, 6))
        => /\ ret.err = "none"
           /\ \A k \in 4..6 : at(ret.val, k) = at(state, k)

\* C4: the parameters alfa, beta, eps, gamma that seir_step returns equal
\* those of its input, whatever their sign.
C4_SeirParametersUnchanged ==
    (SeirCalled /\ IsVector(state, 9) /\ ret.err = "none")
        => \A k \in 6..9 : at(ret.val, k) = at(state, k)

\* the state vector with the parameters of the set neg negated
Negated(a, neg) == [k \in 1..Len(a) |-> IF k \in neg THEN <<RNeg(a[k][1])>> ELSE a[k]]

\* C5: lorenz_evol_step returns the forward-Euler update with step d of the
\* Lorenz derivatives taken with |rho|, |sigma|, |beta|, so negating any of
\* the parameters of the input leaves the returned x, y, z the same.
C5_LorenzEulerWithAbsoluteParameters ==
    (LorenzCalled /\ IsVector(state, 6))
        => LET x == at(state, 1)
               y == at(state, 2)
               z == at(state, 3)
               rho == RAbs(at(state, 4))
               sigma == RAbs(at(state, 5))
               beta == RAbs(at(state, 6))
           IN  /\ ret.err = "none"
               /\ IsVector(ret.val, 6)
               /\ at(ret.val, 1) = RAdd(x, RMul(d, RMul(sigma, RSub(y, x))))
               /\ at(ret.val, 2) = RAdd(y, RMul(d, RSub(RMul(x, RSub(rho, z)), y)))
               /\ at(ret.val, 3) = RAdd(z, RMul(d, RSub(RMul(x, y), RMul(beta, z))))
               /\ \A neg \in SUBSET (4..6) :
                      LET other == lorenz_evol_step(Negated(state, neg))
                      IN  /\ other.err = "none"
                          /\ \A k \in 1..3 : at(other.val, k) = at(ret.val, k)

C5_Witness ==
    /\ LorenzCalled /\ IsVector(state, 6)
    /\ \A k \in 4..6 : RLt(at(state, k), Zero)
    /\ \A k \in 1..3 : at(ret.val, k) # at(state, k)

\* N as seir_step computes it: the sum of S, E, I, R after clamping
ClampedAlive(a) == seir_N(max0(at(a, 1)), max0(at(a, 2)), max0(at(a, 3)), max0(at(a, 4)))

\* C8: when S+E+I+R is zero after clamping, seir_step does not divide by it
\* and returns a state of nine finite numbers.
C8_ZeroPopulationGuarded ==
    (SeirCalled /\ IsVector(state, 9) /\ ClampedAlive(state) = Zero)
        => /\ ret.err = "none"
           /\ \A k \in 1..9 : IsFinite(at(ret.val, k))

\* the number of components a transition function expects
Expected(f) == IF f = "seir_step" THEN 9 ELSE 6

\* C10: a state whose number of components is not the expected one makes the
\* transition function raise; it returns no state.
C10_WrongSizeRaises ==
    (pc = "done" /\ Len(ravel(state)) # Expected(fn)) => ret.err # "none"

\* every component of the state vector is a finite number >= 0
NonNegative(a) == \A k \in 1..Len(a) : IsFinite(at(a, k)) /\ RLe(Zero, at(a, k))

Total(a) == RAdd(Alive(a), at(a, 5))

\* the four rates are >= 0
RatesNonNegative(a) == \A k \in 6..9 : IsFinite(at(a, k)) /\ RLe(Zero, at(a, k))

\* C13, the step: from S, E, I, R, D >= 0 with S+E+I+R > 0 and non-negative
\* rates, S+E+I+R+D of the state seir_step returns equals that of its input.
C13_StepTotalConserved ==
    (SeirCalled /\ ValidSeir(state) /\ RatesNonNegative(state))
        => /\ ret.err = "none"
           /\ Total(ret.val) = Total(state)

C13_StepWitness ==
    /\ SeirCalled /\ ValidSeir(state) /\ RatesNonNegative(state)
    /\ RLt(at(state, 5), at(ret.val, 5))
    /\ at(ret.val, 1) # at(state, 1)

(***************************************************************************)
(* The sample epidemic: the loop that records and advances the state       *)
(***************************************************************************)
\* the number of days simulated, for the notebook's days = 365
MaxDays == 3

\* the rates the learner is asked to choose inside the documented bounds
SimRates ==
    {<<a, b, e, g>> : a \in {alfa_min, alfa_max}, b \in {beta_min, Q(2, 1), beta_max},
                      e \in {Q(1, 5)}, g \in {gamma_min, gamma_max}}

\* seird: the notebook starts from [40000000, 1, 0, 0, 0]
SimCompartments ==
    {<<S, E, I, R, D>> : S \in {Q(n, 1) : n \in 1..MaxCount}, E \in {Zero, Q(1, 1)},
                         I \in {Q(n, 1) : n \in 0..MaxCount}, R \in {Zero, Q(1, 1)},
                         D \in {Zero, Q(2, 1)}}

\* the example of the notebook and of the specification
SampleEpidemic ==
    column(<<Q(40000000, 1), Q(1, 1), Zero, Zero, Zero,
             Q(7, 1000), Q(2, 1), Q(1, 5), Q(7, 50)>>)

SimStates == {column(c \o p) : c \in SimCompartments, p \in SimRates} \cup {SampleEpidemic}

InitSim ==
    /\ fn = "seir_step"
    /\ state \in SimStates
    /\ states = <<>>
    /\ i = 0
    /\ pc = "loop"
    /\ ret = None
    /\ observations = <<>>
    /\ size = 0
    /\ NoAssimilation
    /\ NoSensitivity

\* state[:5][:, 0]
first_five(a) == [k \in 1..5 |-> a[k][1]]

\* one iteration: states[i] = state[:5][:, 0]; state = seir_step(state)
SimDay ==
    /\ pc = "loop"
    /\ i < MaxDays
    /\ states' = Append(states, first_five(state))
    /\ ret' = seir_step(state)
    /\ IF ret'.err = "none"
       THEN state' = ret'.val /\ i' = i + 1 /\ pc' = pc
       ELSE pc' = "raised" /\ UNCHANGED <<state, i>>
    /\ UNCHANGED <<fn, observations, size, da_vars, sa_vars>>

SimEnd ==
    /\ pc = "loop"
    /\ i = MaxDays
    /\ pc' = "done"
    /\ UNCHANGED <<fn, state, ret, states, observations, i, size, da_vars, sa_vars>>

NextSim == SimDay \/ SimEnd

SpecSim == InitSim /\ [][NextSim]_vars

(***************************************************************************)
(* Properties of the sample epidemic                                       *)
(***************************************************************************)
\* S + E + I + R of a recorded row
AliveRow(row) == RAdd(RAdd(RAdd(row[1], row[2]), row[3]), row[4])

\* the rows recorded so far and the state reached, in time order
Trajectory == Append(states, first_five(state))

\* C2: along the states produced by repeated seir_step from a valid state
\* with rates inside the bounds, S+E+I+R never increases.
C2_AliveNeverIncreases ==
    \A k \in 2..Len(Trajectory) :
        RLe(AliveRow(Trajectory[k]), AliveRow(Trajectory[k - 1]))

TotalRow(row) == RAdd(AliveRow(row), row[5])

\* C13: along the states produced by repeated seir_step from a valid state
\* with non-negative rates, S+E+I+R+D stays what it was at the start.
C13_TotalConstantAlongTrajectory ==
    \A k \in 1..Len(Trajectory) : TotalRow(Trajectory[k]) = TotalRow(Trajectory[1])

\* E = 0, I = 0, S, R, D >= 0, S + R > 0 and non-negative rates
DiseaseFree(a) ==
    /\ ValidSeir(a)
    /\ RatesNonNegative(a)
    /\ at(a, 2) = Zero
    /\ at(a, 3) = Zero

MaxSize == 4

\* the longest observation window given to assimilate
MaxWindow == 2

\* the most adjustments of the candidate before assimilate gives up
MaxIter == 2

\* the observed part of a Lorenz state: the coordinates x, y, z
lorenz_obs_operator(st) == <<st[1][1], st[2][1], st[3][1]>>

\* the observed part of a SEIR state: the deaths D
seir_obs_operator(st) == <<st[5][1]>>

\* the callables prepare_obs and assimilate are given, one pair per model
obs_operator(f, st) ==
    IF f = "seir_step" THEN seir_obs_operator(st) ELSE lorenz_obs_operator(st)

evolution_function(f, st) ==
    IF f = "seir_step" THEN seir_step(st) ELSE lorenz_evol_step(st)

\* the slip of one iteration too many
in_range_inclusive(k, n) == k <= n

\* for i in range(size)
in_range(k, n) == k < n

\* xb = [1., 1., 1.] + [rho, sigma, beta]
lorenz_xb == column(<<Q(1, 1), Q(1, 1), Q(1, 1), Q(28, 1), Q(10, 1), Q(8, 3)>>)

\* the states the observations are generated from
Truths(f) ==
    IF f = "seir_step"
    THEN {column(<<Q(3, 1), Q(1, 1), Q(I, 1), Zero, Zero, alfa_max, Q(2, 1), Q(1, 5), gamma_max>>) :
              I \in {1, 2}}
    ELSE {lorenz_xb,
          column(<<Q(0, 1), Q(1, 1), Q(2, 1), Q(-28, 1), Q(-10, 1), Q(5, 1)>>)}

\* the same, and more of them, for prepare_obs on its own
ObsTruths(f) ==
    IF f = "seir_step"
    THEN Truths(f) \cup
         {column(<<Q(S, 1), Q(E, 1), Q(I, 1), Zero, Q(2, 1), alfa_min, b, eps_max, gamma_min>>) :
              S \in 1..MaxCount, E \in {0, 1}, I \in {1, 2}, b \in {beta_min, beta_max}}
    ELSE Truths(f) \cup
         {column(<<Q(c, 1), Q(1, 1), Q(c - 1, 1), r, Q(10, 1), b>>) :
              c \in 0..MaxCount, r \in Rhos, b \in LorenzBetas}

\* prepare_obs(truth, obs_operator, evolution_function, size) has been called
Prepare ==
    /\ state = truth
    /\ observations = <<>>
    /\ i = 0
    /\ pc = "prepare_obs"
    /\ ret = None
    /\ states = <<>>
    /\ yobs = <<>>
    /\ xb = <<>>
    /\ error_vector = <<>>
    /\ cand = <<>>
    /\ iter = 0
    /\ result = None
    /\ NoSensitivity

InitObs ==
    /\ fn \in {"seir_step", "lorenz_evol_step"}
    /\ truth \in ObsTruths(fn)
    /\ size \in 0..MaxSize
    /\ Prepare

InitDA ==
    /\ fn \in {"seir_step", "lorenz_evol_step"}
    /\ truth \in Truths(fn)
    /\ size \in 1..MaxWindow
    /\ Prepare

\* one iteration of prepare_obs: observe the state, then advance it
ObsIter ==
    /\ pc = "prepare_obs"
    /\ in_range(i, size)
    /\ observations' = Append(observations, obs_operator(fn, state))
    /\ ret' = evolution_function(fn, state)
    /\ IF ret'.err = "none"
       THEN state' = ret'.val /\ i' = i + 1 /\ pc' = pc
       ELSE pc' = "raised" /\ UNCHANGED <<state, i>>
    /\ UNCHANGED <<fn, states, size, da_vars, sa_vars>>

\* return observations
ObsReturn ==
    /\ pc = "prepare_obs"
    /\ ~in_range(i, size)
    /\ yobs' = observations
    /\ pc' = "assimilate"
    /\ UNCHANGED <<fn, state, ret, states, observations, i, size, truth, xb,
                   error_vector, cand, iter, result, sa_vars>>

\* the state vector a with v added to component j
Shifted(a, j, v) == [k \in 1..Len(a) |-> IF k = j THEN <<RAdd(a[k][1], v)>> ELSE a[k]]

\* the distance between neighbouring candidates
Delta == Q(1, 2)

Neighbours(a) == {Shifted(a, j, v) : j \in 1..Len(a), v \in {Delta, RNeg(Delta)}}

\* the background estimates: the true state, or one a step away from it
Backgrounds(a) == {a} \cup {Shifted(a, j, Delta) : j \in 1..Len(a)}

\* error_vector = [0.1, 0.1, 0.1, 100, 100, 100], or the default weighting
ErrorVectors(f) ==
    IF f = "seir_step" THEN {[k \in 1..9 |-> Q(1, 1)]}
    ELSE {[k \in 1..6 |-> Q(1, 1)],
          <<Q(1, 10), Q(1, 10), Q(1, 10), Q(100, 1), Q(100, 1), Q(100, 1)>>}

RECURSIVE RSum(_)
RSum(seq) == IF seq = <<>> THEN Zero ELSE RAdd(Head(seq), RSum(Tail(seq)))

RSq(a) == RMul(a, a)

RECURSIVE forecast(_, _, _)
\* the state k steps after st
forecast(f, st, k) ==
    IF k = 0 THEN st ELSE forecast(f, evolution_function(f, st).val, k - 1)

\* the deviation of the candidate from the background, weighted by the
\* covariance diagonal
background_cost(c, bg, ev) ==
    RSum([j \in 1..Len(c) |-> RDiv(RSq(RSub(c[j][1], bg[j][1])), ev[j])])

\* the sum of the squared differences of two observations
squared_distance(y, h) == RSum([m \in 1..Len(h) |-> RSq(RSub(y[m], h[m]))])

\* the squared misfit between observation k and the candidate's forecast
misfit(f, c, obs, k) == squared_distance(obs[k], obs_operator(f, forecast(f, c, k - 1)))

\* the cost functional
cost(f, c, bg, ev, obs) ==
    RAdd(background_cost(c, bg, ev),
         RSum([k \in 1..Len(obs) |-> misfit(f, c, obs, k)]))

\* the cost of each of the candidates cs
priced(f, cs, bg, ev, obs) == [n \in cs |-> cost(f, n, bg, ev, obs)]

\* the slip of climbing: the neighbours that cost more
Improving_reversed(c, price) ==
    {<<n, price[n]>> : n \in {m \in DOMAIN price \ {c} : RLt(price[c], price[m])}}

\* the neighbours of the candidate that cost less than it, each with its cost
Improving(c, price) ==
    {<<n, price[n]>> : n \in {m \in DOMAIN price \ {c} : RLt(price[m], price[c])}}

\* the cheapest of them
Steepest(imp) == {p[1] : p \in {q \in imp : \A o \in imp : RLe(q[2], o[2])}}

\* the improving neighbours of the candidate the minimization stands at
Descent == Improving(cand, priced(fn, Neighbours(cand) \cup {cand}, xb, error_vector, yobs))

\* assimilate(xb, yobs, obs_operator, evolution_function, error_vector)
AssimCall ==
    /\ pc = "assimilate"
    /\ xb' \in Backgrounds(truth)
    /\ error_vector' \in ErrorVectors(fn)
    /\ cand' = xb'
    /\ iter' = 0
    /\ pc' = "minimize"
    /\ UNCHANGED <<fn, state, ret, states, observations, i, size, truth, yobs, result, sa_vars>>

\* adjust the candidate to reduce the cost
AssimAdjust ==
    /\ pc = "minimize"
    /\ iter < MaxIter
    /\ cand' \in Steepest(Descent)
    /\ iter' = iter + 1
    /\ UNCHANGED <<pc, fn, state, ret, states, observations, i, size, truth, yobs,
                   xb, error_vector, result, sa_vars>>

\* converged, or out of iterations: return the best estimate found
AssimReturn ==
    /\ pc = "minimize"
    /\ iter = MaxIter \/ Descent = {}
    /\ result' = Return(cand)
    /\ pc' = "done"
    /\ UNCHANGED <<fn, state, ret, states, observations, i, size, truth, yobs,
                   xb, error_vector, cand, iter, sa_vars>>

NextObs == ObsIter \/ ObsReturn

SpecObs == InitObs /\ [][NextObs]_vars

NextDA == ObsIter \/ ObsReturn \/ AssimCall \/ AssimAdjust \/ AssimReturn

SpecDA == InitDA /\ [][NextDA]_vars

(***************************************************************************)
(* Properties of the data assimilation                                     *)
(***************************************************************************)
\* C6: prepare_obs returns exactly size observations, and observation k
\* (from 0) is the observation operator applied to the starting state
\* advanced k times, so the result depends on its arguments only.
C6_ObservationsAreObservedForecasts ==
    pc \in {"assimilate", "minimize", "done"}
        => /\ Len(yobs) = size
           /\ \A k \in 1..size : yobs[k] = obs_operator(fn, forecast(fn, truth, k - 1))

C6_Witness ==
    /\ pc = "assimilate"
    /\ size = MaxSize
    /\ fn = "lorenz_evol_step"
    /\ truth = lorenz_xb
    /\ yobs[1] = <<Q(1, 1), Q(1, 1), Q(1, 1)>>
    /\ yobs[2] = <<Q(1, 1), Q(63, 50), Q(59, 60)>>

\* the tolerance within which an estimate counts as equal to the true state
Tol == Q(1, 1000)

\* C9: with noise-free observations of a true state and the background equal
\* to that state, assimilate returns a state within Tol of it.
C9_TruthIsRecovered ==
    (pc = "done" /\ xb = truth)
        => /\ result.err = "none"
           /\ Len(result.val) = Len(truth)
           /\ \A j \in 1..Len(truth) :
                  RLe(RAbs(RSub(result.val[j][1], truth[j][1])), Tol)

C9_Witness ==
    /\ pc = "done"
    /\ xb = truth
    /\ truth = lorenz_xb
    /\ size = MaxWindow
    /\ yobs[2] = <<Q(1, 1), Q(63, 50), Q(59, 60)>>
    /\ result.val = lorenz_xb

(***************************************************************************)
(* Sensitivity analysis: generate_outputs_seir                             *)
(***************************************************************************)
\* the steps simulated for each row, for the notebook's range(200)
MaxSteps == 3

\* the most rows of parameter_combinations
MaxCombinations == 2

\* initial_state = np.array([39900000, 60000, 10000, 80000, 2300])
initial_state == <<Q(39900000, 1), Q(60000, 1), Q(10000, 1), Q(80000, 1), Q(2300, 1)>>

\* rows alfa, beta, eps, gamma sampled inside the documented bounds
ParameterRows ==
    {<<alfa_min, Q(2, 1), eps_max, gamma_min>>,
     <<alfa_max, beta_max, eps_max, gamma_max>>,
     <<alfa_min, Q(1, 2), eps_min, gamma_max>>,
     <<alfa_max, beta_min, eps_min, gamma_max>>,
     <<alfa_min, beta_min, eps_max, gamma_min>>,
     <<alfa_max, Q(2, 1), eps_min, gamma_min>>}

ParameterCombinations ==
    UNION {[1..n -> ParameterRows] : n \in 1..MaxCombinations}

InitGen ==
    /\ fn = "seir_step"
    /\ parameter_combinations \in ParameterCombinations
    /\ output_final = <<>>
    /\ output_max = <<>>
    /\ i = 0
    /\ step = 0
    /\ max_infected = <<>>
    /\ pc = "combination"
    /\ state = <<>>
    /\ ret = None
    /\ states = <<>>
    /\ observations = <<>>
    /\ size = 0
    /\ NoAssimilation

\* the next row: the state is the initial state with the row's parameters,
\* and max_infected = 0
GenRow ==
    /\ pc = "combination"
    /\ i < Len(parameter_combinations)
    /\ state' = column(initial_state \o parameter_combinations[i + 1])
    /\ max_infected' = Zero
    /\ step' = 0
    /\ pc' = "steps"
    /\ UNCHANGED <<fn, ret, states, observations, i, size, da_vars,
                   parameter_combinations, output_final, output_max>>

\* max_infected after the state st has been reached
larger_infected(st, seen) == IF RLt(seen, at(st, 3)) THEN at(st, 3) ELSE seen

\* one step: state = seir_step(state), then the comparison with max_infected
GenStep ==
    /\ pc = "steps"
    /\ step < MaxSteps
    /\ ret' = seir_step(state)
    /\ IF ret'.err = "none"
       THEN /\ state' = ret'.val
            /\ max_infected' = larger_infected(ret'.val, max_infected)
            /\ step' = step + 1
            /\ pc' = pc
       ELSE pc' = "raised" /\ UNCHANGED <<state, max_infected, step>>
    /\ UNCHANGED <<fn, states, observations, i, size, da_vars,
                   parameter_combinations, output_final, output_max>>

\* output_final[i] = state[:][4]; output_max[i] = max_infected
GenStore ==
    /\ pc = "steps"
    /\ step = MaxSteps
    /\ output_final' = Append(output_final, at(state, 5))
    /\ output_max' = Append(output_max, max_infected)
    /\ i' = i + 1
    /\ pc' = "combination"
    /\ UNCHANGED <<fn, state, ret, states, observations, size, da_vars,
                   parameter_combinations, step, max_infected>>

\* return output_final, output_max
GenReturn ==
    /\ pc = "combination"
    /\ i = Len(parameter_combinations)
    /\ pc' = "done"
    /\ UNCHANGED <<fn, state, ret, states, observations, i, size, da_vars, sa_vars>>

NextGen == GenRow \/ GenStep \/ GenStore \/ GenReturn

SpecGen == InitGen /\ [][NextGen]_vars

(***************************************************************************)
(* Properties of the sensitivity analysis                                  *)
(***************************************************************************)
\* the state of row j after k steps
Simulated(j, k) == forecast("seir_step", column(initial_state \o parameter_combinations[j]), k)

\* the largest of a non-empty set of numbers
RMax(set) == CHOOSE v \in set : \A w \in set : RLe(w, v)

\* C12: for each row, output_max is the largest I among the initial state and
\* the states after each step, and output_final is D after the last step.
C12_MaxOverEveryMoment ==
    pc = "done"
        => /\ Len(output_max) = Len(parameter_combinations)
           /\ Len(output_final) = Len(parameter_combinations)
           /\ \A j \in 1..Len(parameter_combinations) :
                  /\ output_max[j] = RMax({at(Simulated(j, k), 3) : k \in 0..MaxSteps})
                  /\ output_final[j] = at(Simulated(j, MaxSteps), 5)

\* what the function does report: the largest I among the states after each
\* step, the initial state left out, and D after the last step
C12_MaxOverStepsOnly ==
    pc = "done"
        => /\ Len(output_max) = Len(parameter_combinations)
           /\ Len(output_final) = Len(parameter_combinations)
           /\ \A j \in 1..Len(parameter_combinations) :
                  /\ output_max[j] = RMax({at(Simulated(j, k), 3) : k \in 1..MaxSteps})
                  /\ output_final[j] = at(Simulated(j, MaxSteps), 5)

\* a row whose infectious group only shrinks from the initial 10000
C12_ShrinkingEpidemic ==
    /\ pc = "done"
    /\ \E j \in 1..Len(parameter_combinations) :
           /\ RLt(output_max[j], initial_state[3])
           /\ RLt(initial_state[5], output_final[j])

====
